---- MODULE Spec2Model ----
(***************************************************************************)
(* The two icon generators of claude-code-ios:                             *)
(*   variant "A"  src/extract-icons.py   (create_terminal_icon, main)      *)
(*   variant "B"  src/generate-icons.py  (create_icon, main)               *)
(* A rendered image is the sequence of imaging-library calls issued for    *)
(* it, each with the arguments the code computes.  Spec runs either script *)
(* from start to exit; SpecRender calls the render function of either      *)
(* script on one arbitrary size.                                           *)
(***************************************************************************)
EXTENDS Integers, Sequences, FiniteSets

VARIABLES
    variant,    \* which script runs: "A" or "B"
    HAS_PIL,    \* whether `from PIL import ...` succeeds
    pc,         \* position of the run
    idx,        \* 1-based position of the for loop in the table
    size,       \* loop variable / argument `size`
    filename,   \* loop variable `filename`
    icon,       \* value returned by the render function (None or an image)
    layout,     \* local variables of the last render call
    attempted,  \* filenames on which icon.save was called, in order
    written,    \* filenames whose save succeeded, in order
    log,        \* lines printed (stdout, or the interpreter's traceback)
    ret         \* how the run ended and what main returned

vars == <<variant, HAS_PIL, pc, idx, size, filename, icon, layout,
          attempted, written, log, ret>>

\* Largest size SpecRender passes to a render function.
MaxSize == 1024

None == [size |-> 0, calls |-> <<>>]
NoLocals == [none |-> TRUE]
Running == [kind |-> "running", val |-> 0]
ReturnedNone == [kind |-> "None", val |-> 0]
Raised(exc) == [kind |-> exc, val |-> 0]

----------------------------------------------------------------------------
(* Arithmetic of the scripts.                                              *)

\* Python's x // d for the non-negative operands the scripts use.
FloorDiv(x, d) == x \div d

\* int(x * c) for the float literal c = num/den, x >= 0.  For every literal
\* of extract-icons.py except 0.35 the double product truncates to
\* floor(x*num/den) on 0 <= x < 2100.
TruncMul(x, num, den) == (x * num) \div den

\* 0.35 is stored as 0.34999999999999997...: for these x the exact product
\* x*35/100 is an integer and the double product falls just below it, so
\* int(x * 0.35) is one less (0 <= x < 2100).
RoundsBelow035 ==
    {180, 340, 360, 660, 680, 700, 720,
     1300, 1320, 1340, 1360, 1380, 1400, 1420, 1440, 1460}

TruncMul035(x) ==
    IF x \in RoundsBelow035 THEN ((x * 35) \div 100) - 1 ELSE (x * 35) \div 100

Max(a, b) == IF a >= b THEN a ELSE b

\* '#RRGGBB' as the imaging library reads it; h is the six hex digits.
HexRGB(h) == <<h[1] * 16 + h[2], h[3] * 16 + h[4], h[5] * 16 + h[6]>>

\* One call on the imaging library.
Call(name, kind, xy, fill, outline, radius, width) ==
    [name |-> name, kind |-> kind, xy |-> xy, fill |-> fill,
     outline |-> outline, radius |-> radius, width |-> width]

NoColor == <<>>

----------------------------------------------------------------------------
(* src/extract-icons.py: create_terminal_icon                              *)

\* Mutant of frame_size: the 0.8 inset is dropped.
frame_size_full(sz) == sz

frame_size(sz) == TruncMul(sz, 8, 10)

\* The local variables of create_terminal_icon(size) at its return.
LocalsA(sz) ==
    LET fs == frame_size(sz)
        frame_x == FloorDiv(sz - fs, 2)
        frame_y == FloorDiv(sz - fs, 2)
        corner_radius == TruncMul(fs, 8, 100)
        header_height == TruncMul(fs, 15, 100)
        button_radius == TruncMul(header_height, 15, 100)
        button_y == frame_y + FloorDiv(header_height, 2)
        button_spacing == TruncMul(header_height, 4, 10)
        start_x == frame_x + TruncMul(header_height, 3, 10)
        yellow_x == start_x + button_spacing
        green_x == start_x + button_spacing * 2
        content_y == frame_y + header_height
        content_height == fs - header_height
        logo_size == TruncMul035(fs)
        logo_x == frame_x + FloorDiv(fs - logo_size, 2)
        logo_y == content_y + FloorDiv(content_height - logo_size, 2)
        c_radius == TruncMul035(logo_size)
        c_center_x == logo_x + FloorDiv(logo_size, 2)
        c_center_y == logo_y + FloorDiv(logo_size, 2)
        c_thickness == TruncMul(logo_size, 12, 100)
        gap_width == TruncMul(c_radius, 8, 10)
        cursor_x == logo_x + TruncMul(logo_size, 75, 100)
        cursor_y == logo_y + TruncMul(logo_size, 55, 100)
        cursor_width == Max(1, TruncMul(logo_size, 3, 100))
        cursor_height == TruncMul(logo_size, 15, 100)
        dot_radius == Max(1, TruncMul(logo_size, 2, 100))
        dot_y == logo_y + TruncMul(logo_size, 8, 10)
        dot_x == [i \in 0..2 |->
                    logo_x + TruncMul(logo_size, 2, 10)
                           + i * TruncMul(logo_size, 8, 100)]
    IN  [frame_size |-> fs, frame_x |-> frame_x, frame_y |-> frame_y,
         corner_radius |-> corner_radius, header_height |-> header_height,
         button_radius |-> button_radius, button_y |-> button_y,
         button_spacing |-> button_spacing, start_x |-> start_x,
         yellow_x |-> yellow_x, green_x |-> green_x,
         content_y |-> content_y, content_height |-> content_height,
         logo_size |-> logo_size, logo_x |-> logo_x, logo_y |-> logo_y,
         c_radius |-> c_radius, c_center_x |-> c_center_x,
         c_center_y |-> c_center_y, c_thickness |-> c_thickness,
         gap_width |-> gap_width, cursor_x |-> cursor_x,
         cursor_y |-> cursor_y, cursor_width |-> cursor_width,
         cursor_height |-> cursor_height, dot_radius |-> dot_radius,
         dot_y |-> dot_y, dot_x |-> dot_x]

\* Bounding box of a circle of radius r centred at (x, y).
Around(x, y, r) == <<x - r, y - r, x + r, y + r>>

\* Image.new('RGB', (size, size)): the canvas, black unless a colour is given.
NewCall(sz, color) ==
    Call("new", "new", <<0, 0, sz - 1, sz - 1>>, color, NoColor, 0, 0)

BackgroundCallA(sz) ==
    Call("background", "rectangle", <<0, 0, sz, sz>>, <<26, 26, 26>>,
         NoColor, 0, 1)

terminal_bg == <<30, 30, 30>>

FrameCallA(L) ==
    Call("frame", "rounded_rectangle",
         <<L.frame_x, L.frame_y,
           L.frame_x + L.frame_size, L.frame_y + L.frame_size>>,
         terminal_bg, NoColor, L.corner_radius, 1)

HeaderCallA(L) ==
    Call("header", "rounded_rectangle",
         <<L.frame_x, L.frame_y,
           L.frame_x + L.frame_size, L.frame_y + L.header_height>>,
         <<45, 45, 45>>, NoColor, L.corner_radius, 1)

RedCallA(L) ==
    Call("red", "ellipse", Around(L.start_x, L.button_y, L.button_radius),
         <<255, 95, 87>>, NoColor, 0, 1)

YellowCallA(L) ==
    Call("yellow", "ellipse", Around(L.yellow_x, L.button_y, L.button_radius),
         <<255, 189, 46>>, NoColor, 0, 1)

GreenCallA(L) ==
    Call("green", "ellipse", Around(L.green_x, L.button_y, L.button_radius),
         <<40, 202, 66>>, NoColor, 0, 1)

\* The stroked circle of the "C".
RingCallA(L) ==
    Call("ring", "ellipse",
         Around(L.c_center_x, L.c_center_y,
                L.c_radius + FloorDiv(L.c_thickness, 2)),
         NoColor, <<0, 255, 136>>, 0, L.c_thickness)

\* The rectangle painted over the ring's right half.
GapCallA(L) ==
    Call("gap", "rectangle",
         <<L.c_center_x, L.c_center_y - FloorDiv(L.gap_width, 2),
           L.c_center_x + L.c_radius + L.c_thickness,
           L.c_center_y + FloorDiv(L.gap_width, 2)>>,
         terminal_bg, NoColor, 0, 1)

CursorCallA(L) ==
    Call("cursor", "rectangle",
         <<L.cursor_x, L.cursor_y,
           L.cursor_x + L.cursor_width, L.cursor_y + L.cursor_height>>,
         <<0, 255, 136>>, NoColor, 0, 1)

\* The prompt dot drawn by iteration i of the loop `for i in range(3)`.
DotCallA(L, i) ==
    Call("dot", "ellipse", Around(L.dot_x[i], L.dot_y, L.dot_radius),
         IF i = 0 THEN <<0, 255, 136>> ELSE <<102, 102, 102>>,
         NoColor, 0, 1)

\* Mutant of CallsA: the cursor bar is drawn right after the background.
CallsA_cursor_first(sz, L) ==
    << NewCall(sz, <<0, 0, 0>>), BackgroundCallA(sz), CursorCallA(L),
       FrameCallA(L), HeaderCallA(L),
       RedCallA(L), YellowCallA(L), GreenCallA(L),
       RingCallA(L), GapCallA(L),
       DotCallA(L, 0), DotCallA(L, 1), DotCallA(L, 2) >>

\* The imaging-library calls of create_terminal_icon(size), in program order.
CallsA(sz, L) ==
    << NewCall(sz, <<0, 0, 0>>), BackgroundCallA(sz),
       FrameCallA(L), HeaderCallA(L),
       RedCallA(L), YellowCallA(L), GreenCallA(L),
       RingCallA(L), GapCallA(L), CursorCallA(L),
       DotCallA(L, 0), DotCallA(L, 1), DotCallA(L, 2) >>

\* create_terminal_icon(size): None when the imaging library is missing.
create_terminal_icon(sz, has_pil) ==
    IF ~has_pil THEN None
    ELSE [size |-> sz, calls |-> CallsA(sz, LocalsA(sz))]

----------------------------------------------------------------------------
(* src/generate-icons.py: create_icon                                      *)

margin(sz) == FloorDiv(sz, 8)

\* Mutant of rect_size: the margin is subtracted on one side only.
rect_size_one_margin(sz) == sz - margin(sz)

rect_size(sz) == sz - (margin(sz) * 2)

\* The local variables of create_icon(size, filename) at its return.
LocalsB(sz) ==
    LET header_height == FloorDiv(sz, 12)
        dot_size == FloorDiv(sz, 32)
        dot_y == margin(sz) + FloorDiv(header_height, 2)
        red_x == margin(sz) + dot_size * 2
        yellow_x == red_x + dot_size * 2
        green_x == yellow_x + dot_size * 2
        cursor_y == margin(sz) + header_height + FloorDiv(sz, 8)
        cursor_x == margin(sz) + FloorDiv(sz, 16)
        cursor_width == FloorDiv(sz, 32)
        cursor_height == FloorDiv(sz, 24)
    IN  [margin |-> margin(sz), rect_size |-> rect_size(sz),
         corner_radius |-> FloorDiv(sz, 16),
         header_height |-> header_height, dot_size |-> dot_size,
         dot_y |-> dot_y, red_x |-> red_x, yellow_x |-> yellow_x,
         green_x |-> green_x, cursor_y |-> cursor_y, cursor_x |-> cursor_x,
         cursor_width |-> cursor_width, cursor_height |-> cursor_height]

FrameCallB(L) ==
    Call("frame", "rounded_rectangle",
         <<L.margin, L.margin, L.margin + L.rect_size, L.margin + L.rect_size>>,
         HexRGB(<<1, 12, 1, 12, 1, 14>>), NoColor, L.corner_radius, 1)

HeaderCallB(L) ==
    Call("header", "rounded_rectangle",
         <<L.margin, L.margin,
           L.margin + L.rect_size, L.margin + L.header_height>>,
         HexRGB(<<2, 12, 2, 12, 2, 14>>), NoColor, L.corner_radius, 1)

RedCallB(L) ==
    Call("red", "ellipse", Around(L.red_x, L.dot_y, FloorDiv(L.dot_size, 2)),
         HexRGB(<<15, 15, 5, 15, 5, 7>>), NoColor, 0, 1)

YellowCallB(L) ==
    Call("yellow", "ellipse",
         Around(L.yellow_x, L.dot_y, FloorDiv(L.dot_size, 2)),
         HexRGB(<<15, 15, 11, 13, 2, 14>>), NoColor, 0, 1)

GreenCallB(L) ==
    Call("green", "ellipse",
         Around(L.green_x, L.dot_y, FloorDiv(L.dot_size, 2)),
         HexRGB(<<2, 8, 12, 10, 4, 2>>), NoColor, 0, 1)

CursorCallB(L) ==
    Call("cursor", "rectangle",
         <<L.cursor_x, L.cursor_y,
           L.cursor_x + L.cursor_width, L.cursor_y + L.cursor_height>>,
         HexRGB(<<0, 0, 15, 15, 4, 1>>), NoColor, 0, 1)

\* The imaging-library calls of create_icon, in program order.
CallsB(sz, L) ==
    << NewCall(sz, HexRGB(<<0, 0, 7, 10, 15, 15>>)),
       FrameCallB(L), HeaderCallB(L),
       RedCallB(L), YellowCallB(L), GreenCallB(L),
       CursorCallB(L) >>

\* create_icon(size, filename); the filename argument is not used.
create_icon(sz, fname) == [size |-> sz, calls |-> CallsB(sz, LocalsB(sz))]

----------------------------------------------------------------------------
(* The tables of (size, filename) pairs.                                   *)

Entry(sz, fname) == [size |-> sz, filename |-> fname]

\* Mutant of icon_specs: the second 40-pixel entry repeats an earlier name.
icon_specs_repeated_name ==
    << Entry(20, "Icon-20.png"), Entry(40, "Icon-20@2x.png"),
       Entry(60, "Icon-20@3x.png"), Entry(29, "Icon-29.png"),
       Entry(58, "Icon-29@2x.png"), Entry(87, "Icon-29@3x.png"),
       Entry(40, "Icon-20@2x.png"), Entry(80, "Icon-40@2x.png"),
       Entry(120, "Icon-40@3x.png"), Entry(120, "Icon-60@2x.png"),
       Entry(180, "Icon-60@3x.png"), Entry(76, "Icon-76.png"),
       Entry(152, "Icon-76@2x.png"), Entry(167, "Icon-83.5@2x.png"),
       Entry(1024, "Icon-1024.png") >>

\* icon_specs of extract-icons.py's main.
icon_specs ==
    << Entry(20, "Icon-20.png"), Entry(40, "Icon-20@2x.png"),
       Entry(60, "Icon-20@3x.png"), Entry(29, "Icon-29.png"),
       Entry(58, "Icon-29@2x.png"), Entry(87, "Icon-29@3x.png"),
       Entry(40, "Icon-40.png"), Entry(80, "Icon-40@2x.png"),
       Entry(120, "Icon-40@3x.png"), Entry(120, "Icon-60@2x.png"),
       Entry(180, "Icon-60@3x.png"), Entry(76, "Icon-76.png"),
       Entry(152, "Icon-76@2x.png"), Entry(167, "Icon-83.5@2x.png"),
       Entry(1024, "Icon-1024.png") >>

\* ICON_SIZES of generate-icons.py.
ICON_SIZES ==
    << Entry(40, "iphone-20@2x.png"), Entry(60, "iphone-20@3x.png"),
       Entry(58, "iphone-29@2x.png"), Entry(87, "iphone-29@3x.png"),
       Entry(80, "iphone-40@2x.png"), Entry(120, "iphone-40@3x.png"),
       Entry(120, "iphone-60@2x.png"), Entry(180, "iphone-60@3x.png"),
       Entry(20, "ipad-20@1x.png"), Entry(40, "ipad-20@2x.png"),
       Entry(29, "ipad-29@1x.png"), Entry(58, "ipad-29@2x.png"),
       Entry(40, "ipad-40@1x.png"), Entry(80, "ipad-40@2x.png"),
       Entry(76, "ipad-76@1x.png"), Entry(152, "ipad-76@2x.png"),
       Entry(167, "ipad-83.5@2x.png"), Entry(1024, "ios-marketing@1x.png") >>

Table(v) == IF v = "A" THEN icon_specs ELSE ICON_SIZES

----------------------------------------------------------------------------
(* The run of one script.                                                  *)

Init ==
    /\ variant \in {"A", "B"}
    /\ HAS_PIL \in BOOLEAN
    /\ pc = "start"
    /\ idx = 1
    /\ size = 0
    /\ filename = ""
    /\ icon = None
    /\ layout = NoLocals
    /\ attempted = <<>>
    /\ written = <<>>
    /\ log = <<>>
    /\ ret = Running

\* extract-icons.py, main: the imaging library is missing.
A_MainUnavailable ==
    /\ variant = "A" /\ pc = "start" /\ ~HAS_PIL
    /\ log' = log \o << <<"PIL/Pillow not available">>,
                        <<"Install with: pip3 install Pillow">>,
                        <<"Alternative: Use the HTML file in browser">> >>
    /\ pc' = "exit"
    /\ ret' = ReturnedNone
    /\ UNCHANGED <<variant, HAS_PIL, idx, size, filename, icon, layout,
                   attempted, written>>

\* extract-icons.py, main: up to the for loop.
A_MainBegin ==
    /\ variant = "A" /\ pc = "start" /\ HAS_PIL
    /\ log' = Append(log, <<"Generating Claude CLI iOS icons...">>)
    /\ pc' = "loop"
    /\ UNCHANGED <<variant, HAS_PIL, idx, size, filename, icon, layout,
                   attempted, written, ret>>

\* One iteration up to the return of create_terminal_icon.
A_Create ==
    /\ variant = "A" /\ pc = "loop" /\ idx <= Len(icon_specs)
    /\ size' = icon_specs[idx].size
    /\ filename' = icon_specs[idx].filename
    /\ log' = Append(log, <<"Creating", filename', size'>>)
    /\ icon' = create_terminal_icon(size', HAS_PIL)
    /\ layout' = IF HAS_PIL THEN LocalsA(size') ELSE NoLocals
    /\ pc' = "save"
    /\ UNCHANGED <<variant, HAS_PIL, idx, attempted, written, ret>>

\* The rest of the iteration: `if icon: icon.save(...) else: print(...)`.
\* A save that raises is not caught anywhere: the run ends with the traceback.
A_Save ==
    /\ variant = "A" /\ pc = "save"
    /\ IF icon # None
       THEN /\ attempted' = Append(attempted, filename)
            /\ \E ok \in BOOLEAN :
                 IF ok
                 THEN /\ written' = Append(written, filename)
                      /\ idx' = idx + 1
                      /\ pc' = "loop"
                      /\ UNCHANGED <<log, ret>>
                 ELSE /\ log' = Append(log, <<"Traceback", "OSError">>)
                      /\ pc' = "exit"
                      /\ ret' = Raised("OSError")
                      /\ UNCHANGED <<written, idx>>
       ELSE /\ log' = Append(log, <<"Failed to create", filename>>)
            /\ idx' = idx + 1
            /\ pc' = "loop"
            /\ UNCHANGED <<attempted, written, ret>>
    /\ UNCHANGED <<variant, HAS_PIL, size, filename, icon, layout>>

\* extract-icons.py, main: after the loop.
A_Finish ==
    /\ variant = "A" /\ pc = "loop" /\ idx > Len(icon_specs)
    /\ log' = log \o << <<"All icons generated!">>, <<"Icons saved to">>,
                        <<"Next steps">> >>
    /\ pc' = "exit"
    /\ ret' = ReturnedNone
    /\ UNCHANGED <<variant, HAS_PIL, idx, size, filename, icon, layout,
                   attempted, written>>

\* generate-icons.py, module level: `from PIL import Image, ImageDraw`.
\* A failing import is not caught: the interpreter prints its traceback.
B_Import ==
    /\ variant = "B" /\ pc = "start"
    /\ IF HAS_PIL
       THEN /\ pc' = "main"
            /\ UNCHANGED <<log, ret>>
       ELSE /\ log' = Append(log, <<"Traceback", "ModuleNotFoundError">>)
            /\ pc' = "exit"
            /\ ret' = Raised("ModuleNotFoundError")
    /\ UNCHANGED <<variant, HAS_PIL, idx, size, filename, icon, layout,
                   attempted, written>>

\* generate-icons.py, main: up to the for loop.
B_MainBegin ==
    /\ variant = "B" /\ pc = "main"
    /\ log' = Append(log, <<"Generating app icons...">>)
    /\ pc' = "loop"
    /\ UNCHANGED <<variant, HAS_PIL, idx, size, filename, icon, layout,
                   attempted, written, ret>>

\* One iteration up to the return of create_icon.
B_Create ==
    /\ variant = "B" /\ pc = "loop" /\ idx <= Len(ICON_SIZES)
    /\ size' = ICON_SIZES[idx].size
    /\ filename' = ICON_SIZES[idx].filename
    /\ log' = Append(log, <<"Creating", filename', size'>>)
    /\ icon' = create_icon(size', filename')
    /\ layout' = LocalsB(size')
    /\ pc' = "save"
    /\ UNCHANGED <<variant, HAS_PIL, idx, attempted, written, ret>>

\* The rest of the iteration: icon.save(...), with nothing around it.
B_Save ==
    /\ variant = "B" /\ pc = "save"
    /\ attempted' = Append(attempted, filename)
    /\ \E ok \in BOOLEAN :
         IF ok
         THEN /\ written' = Append(written, filename)
              /\ idx' = idx + 1
              /\ pc' = "loop"
              /\ UNCHANGED <<log, ret>>
         ELSE /\ log' = Append(log, <<"Traceback", "OSError">>)
              /\ pc' = "exit"
              /\ ret' = Raised("OSError")
              /\ UNCHANGED <<written, idx>>
    /\ UNCHANGED <<variant, HAS_PIL, size, filename, icon, layout>>

\* generate-icons.py, main: after the loop.
B_Finish ==
    /\ variant = "B" /\ pc = "loop" /\ idx > Len(ICON_SIZES)
    /\ log' = log \o << <<"All icons generated successfully!">>,
                        <<"Next steps">> >>
    /\ pc' = "exit"
    /\ ret' = ReturnedNone
    /\ UNCHANGED <<variant, HAS_PIL, idx, size, filename, icon, layout,
                   attempted, written>>

Next ==
    \/ A_MainUnavailable
    \/ A_MainBegin
    \/ A_Create
    \/ A_Save
    \/ A_Finish
    \/ B_Import
    \/ B_MainBegin
    \/ B_Create
    \/ B_Save
    \/ B_Finish

Spec == Init /\ [][Next]_vars

----------------------------------------------------------------------------
(* One call of a render function on an arbitrary size.                     *)

InitRender ==
    /\ variant \in {"A", "B"}
    /\ HAS_PIL \in (IF variant = "A" THEN BOOLEAN ELSE {TRUE})
    /\ pc = "call"
    /\ idx = 1
    /\ size \in 1..MaxSize
    /\ filename = "icon.png"
    /\ icon = None
    /\ layout = NoLocals
    /\ attempted = <<>>
    /\ written = <<>>
    /\ log = <<>>
    /\ ret = Running

CallCreateTerminalIcon ==
    /\ variant = "A" /\ pc = "call"
    /\ icon' = create_terminal_icon(size, HAS_PIL)
    /\ layout' = IF HAS_PIL THEN LocalsA(size) ELSE NoLocals
    /\ log' = IF HAS_PIL THEN log
              ELSE Append(log, <<"PIL/Pillow not available. Please install: pip3 install Pillow">>)
    /\ pc' = "returned"
    /\ UNCHANGED <<variant, HAS_PIL, idx, size, filename, attempted,
                   written, ret>>

CallCreateIcon ==
    /\ variant = "B" /\ pc = "call"
    /\ icon' = create_icon(size, filename)
    /\ layout' = LocalsB(size)
    /\ pc' = "returned"
    /\ UNCHANGED <<variant, HAS_PIL, idx, size, filename, attempted,
                   written, log, ret>>

NextRender == CallCreateTerminalIcon \/ CallCreateIcon

SpecRender == InitRender /\ [][NextRender]_vars

----------------------------------------------------------------------------
(* Reading a rendered image.                                               *)

\* A render function has returned an image (SpecRender).
Returned == pc = "returned" /\ icon # None

\* The loop holds a freshly rendered image, not yet saved (Spec).
Rendered == pc = "save" /\ icon # None

CallsNamed(n) == SelectSeq(icon.calls, LAMBDA c : c.name = n)
TheCall(n) == CallsNamed(n)[1]

Width(c) == c.xy[3] - c.xy[1]
Height(c) == c.xy[4] - c.xy[2]
CenterX(c) == (c.xy[1] + c.xy[3]) \div 2
CenterY(c) == (c.xy[2] + c.xy[4]) \div 2
Radius(c) == Width(c) \div 2

\* The point p lies inside the bounding box of call c (boxes are inclusive).
InBox(c, p) ==
    /\ c.xy[1] <= p[1] /\ p[1] <= c.xy[3]
    /\ c.xy[2] <= p[2] /\ p[2] <= c.xy[4]

\* The last call whose bounding box holds p: no later call can change p.
LastOver(p) ==
    LET hits == {i \in 1..Len(icon.calls) : InBox(icon.calls[i], p)}
    IN  CHOOSE i \in hits : \A j \in hits : j <= i

Corners == {<<0, 0>>, <<size - 1, 0>>, <<0, size - 1>>, <<size - 1, size - 1>>}

Abs(x) == IF x < 0 THEN -x ELSE x

SizesOf(tbl) == {tbl[i].size : i \in 1..Len(tbl)}
TableSizes == SizesOf(icon_specs) \cup SizesOf(ICON_SIZES)
SmallestSize == CHOOSE s \in TableSizes : \A u \in TableSizes : s <= u
LargestSize == CHOOSE s \in TableSizes : \A u \in TableSizes : u <= s

\* Saves that were attempted and did not succeed.
FailedWrites == Len(attempted) - Len(written)

Names(tbl) == [i \in 1..Len(tbl) |-> tbl[i].filename]
Distinct(s) == \A i, j \in 1..Len(s) : i # j => s[i] # s[j]

----------------------------------------------------------------------------
(* C1 *)

\* C1: for every size s >= 1 and both variants the layout is strictly
\* positive: frame side, header height and traffic-light radius are > 0,
\* and in variant A so are the logo side, the ring radius and the ring's
\* stroke width.  (Fails: create_terminal_icon(20) has button_radius 0.)
C1_StrictlyPositiveLayout ==
    Returned =>
        /\ Width(TheCall("frame")) > 0
        /\ Height(TheCall("header")) > 0
        /\ (variant = "A" =>
              /\ layout.frame_size > 0
              /\ layout.header_height > 0
              /\ layout.button_radius > 0
              /\ layout.logo_size > 0
              /\ layout.c_radius > 0
              /\ layout.c_thickness > 0)
        /\ (variant = "B" =>
              /\ layout.rect_size > 0
              /\ layout.header_height > 0
              /\ layout.dot_size \div 2 > 0)

----------------------------------------------------------------------------
(* C2 *)

\* C2: in variant A, when saving one entry's file fails the driver logs it
\* and goes on: all 15 entries are rendered and their save attempted, the
\* run ends normally, and 15 minus the failed writes are written.
\* (Fails: the exception of icon.save is not caught and ends the run.)
C2_WriteFailureLoggedAndSkipped ==
    (variant = "A" /\ HAS_PIL /\ pc = "exit") =>
        /\ ret = ReturnedNone
        /\ Len(attempted) = 15
        /\ Len(written) = 15 - FailedWrites

----------------------------------------------------------------------------
(* C3 *)

\* A run that went through the whole table with no failed write.
Completed ==
    /\ pc = "exit" /\ HAS_PIL
    /\ Len(attempted) = Len(Table(variant))
    /\ FailedWrites = 0

FilesAsListed ==
    /\ written = Names(Table(variant))
    /\ Distinct(written)
    /\ Len(written) = (IF variant = "A" THEN 15 ELSE 18)

----------------------------------------------------------------------------
(* C4 *)

\* C4: create_icon(20) of variant B gives every draw call dimensions of at
\* least 1: margin, frame side, corner radius, header height, dot size and
\* its half, cursor width and cursor height.
\* (Fails: 20 // 32 = 0 and 20 // 24 = 0.)
C4_MinimumSizeAtLeastOne ==
    (Returned /\ variant = "B" /\ size = 20) =>
        /\ layout.margin >= 1
        /\ Width(TheCall("frame")) >= 1
        /\ TheCall("frame").radius >= 1
        /\ Height(TheCall("header")) >= 1
        /\ layout.dot_size >= 1
        /\ Radius(TheCall("red")) >= 1
        /\ Width(TheCall("cursor")) >= 1
        /\ Height(TheCall("cursor")) >= 1

----------------------------------------------------------------------------
(* C5 *)

\* C5: for every size of either table the three traffic-light buttons have
\* strictly increasing, equally spaced x centres, one common y centre at the
\* header's vertical middle, and the colours (255,95,87), (255,189,46),
\* (40,202,66) from left to right.
\* (Fails: at size 20 the three centres coincide in both variants.)
C5_ButtonsSpacedAndColoured ==
    Rendered =>
        LET r == TheCall("red")
            y == TheCall("yellow")
            g == TheCall("green")
            h == TheCall("header")
        IN  /\ CenterX(y) - CenterX(r) = CenterX(g) - CenterX(y)
            /\ CenterX(y) - CenterX(r) > 0
            /\ CenterY(r) = CenterY(y) /\ CenterY(y) = CenterY(g)
            /\ CenterY(r) = h.xy[2] + (Height(h) \div 2)
            /\ r.fill = <<255, 95, 87>>
            /\ y.fill = <<255, 189, 46>>
            /\ g.fill = <<40, 202, 66>>

----------------------------------------------------------------------------
(* C6 *)

InTableRange == SmallestSize <= size /\ size <= LargestSize

\* C6 as stated: for every size s in 20..1024 the frame side is less than
\* one pixel from the exact proportion: |frame - 0.8 s| < 1 in variant A and
\* |frame - 0.75 s| < 1 in variant B.
\* (Fails: create_icon(20) has a frame side of 16, 0.75 * 20 = 15.)
C6_FrameSideWithinOnePixel ==
    (Returned /\ InTableRange) =>
        /\ (variant = "A" =>
              Abs(5 * Width(TheCall("frame")) - 4 * size) < 5)
        /\ (variant = "B" =>
              Abs(4 * Width(TheCall("frame")) - 3 * size) < 4)

\* C6 amended: for every size s in 20..1024, |frame - 0.8 s| < 1 in variant
\* A and |frame - 0.75 s| < 2 in variant B (the margin s // 8 is floored and
\* taken twice).
C6_FrameSideWithinRounding ==
    (Returned /\ InTableRange) =>
        /\ (variant = "A" =>
              Abs(5 * Width(TheCall("frame")) - 4 * size) < 5)
        /\ (variant = "B" =>
              Abs(4 * Width(TheCall("frame")) - 3 * size) < 8)

\* A variant B frame a full pixel or more off the exact proportion.
C6_Witness ==
    /\ Returned /\ InTableRange /\ variant = "B"
    /\ Abs(4 * Width(TheCall("frame")) - 3 * size) >= 4

----------------------------------------------------------------------------
(* C7 *)

\* Position of a call in the back-to-front order.
Layer(n) ==
    CASE n \in {"new", "background"} -> 0
      [] n = "frame" -> 1
      [] n = "header" -> 2
      [] n \in {"red", "yellow", "green"} -> 3
      [] n = "ring" -> 4
      [] n = "gap" -> 5
      [] n = "cursor" -> 6
      [] n = "dot" -> 7

NamesIssued == {icon.calls[i].name : i \in 1..Len(icon.calls)}

\* C7: every render call of either variant issues its draw operations back
\* to front: background, frame, header, the three buttons, content (variant
\* A: ring, gap rectangle, cursor bar; variant B: cursor rectangle), then
\* variant A's three prompt dots; nothing of an earlier layer follows
\* something of a later one.
C7_BackToFront ==
    Returned =>
        /\ \A i, j \in 1..Len(icon.calls) :
              i < j => Layer(icon.calls[i].name) <= Layer(icon.calls[j].name)
        /\ Layer(icon.calls[1].name) = 0
        /\ {"frame", "header", "red", "yellow", "green", "cursor"}
              \subseteq NamesIssued
        /\ (variant = "A" =>
              /\ {"background", "ring", "gap"} \subseteq NamesIssued
              /\ Len(CallsNamed("dot")) = 3)

C7_Witness ==
    Returned /\ variant = "A" /\ size = LargestSize /\ Len(icon.calls) = 13

----------------------------------------------------------------------------
(* C8 *)

\* C8: in variant A, at every size of the table, the four corner pixels lie
\* strictly outside the frame's bounding box and outside every shape drawn
\* after the background, so they keep the background colour (26,26,26).
C8_CornersKeepBackground ==
    (Rendered /\ variant = "A") =>
        \A p \in Corners :
            /\ ~InBox(TheCall("frame"), p)
            /\ icon.calls[LastOver(p)].name = "background"
            /\ icon.calls[LastOver(p)].fill = <<26, 26, 26>>

C8_Witness ==
    Rendered /\ variant = "A" /\ size = 1024

----------------------------------------------------------------------------
(* C9 *)

Printed(line) == \E i \in 1..Len(log) : log[i] = line

\* C9: when the imaging library is unavailable the run is fatal as a whole:
\* the program prints a diagnostic and a suggested remedy and ends; no icon
\* is rendered, no write is attempted, the loop is never entered.
\* (Fails for variant B: the import error is not caught, the traceback names
\* no remedy.)
C9_UnavailableIsFatalWithRemedy ==
    ~HAS_PIL =>
        /\ pc \notin {"loop", "save"}
        /\ icon = None
        /\ attempted = <<>>
        /\ written = <<>>
        /\ (pc = "exit" =>
              /\ Printed(<<"PIL/Pillow not available">>)
              /\ Printed(<<"Install with: pip3 install Pillow">>))

----------------------------------------------------------------------------
(* C10 *)

\* C10: in variant A, at every size of the table, the three prompt dots have
\* strictly increasing x centres, so the first (accent) dot is not painted
\* over by the two gray dots that follow.
\* (Fails: at sizes 20, 29 and 40 int(logo_size * 0.08) = 0 and the three
\* dots coincide.)
C10_PromptDotsApart ==
    (Rendered /\ variant = "A") =>
        LET d == CallsNamed("dot")
        IN  /\ Len(d) = 3
            /\ CenterX(d[1]) < CenterX(d[2])
            /\ CenterX(d[2]) < CenterX(d[3])
            /\ d[1].fill = <<0, 255, 136>>
            /\ d[1].xy # d[2].xy /\ d[1].xy # d[3].xy

====
